---- MODULE Spec2Model ----
(***************************************************************************)
(* Model of apps/homelab-mcp/src/server.py: the stdio MCP server that      *)
(* relays five read-only homelab queries to an external command-line tool. *)
(*                                                                         *)
(* Python values are modelled as tagged records:                           *)
(*   JSON values   [t |-> "null"|"num"|"str"|"arr"|"obj", ...]             *)
(*   text          [k |-> "raw"|"json"|"fmt"|"count"|"line", ...]          *)
(*   an exception  [t |-> "exc", e |-> <exception class>]                  *)
(* A text of kind "json" is the serialisation of the value it carries; a   *)
(* text of kind "raw" is a literal that is not a JSON document.            *)
(***************************************************************************)
EXTENDS Integers, Sequences, FiniteSets, TLC

VARIABLES
    pc,       \* pc[c]: "idle" | "pending" | "waiting" | "done"
    req,      \* req[c]: the request [name, arguments] of call c
    cmds,     \* cmds[c]: the argument vectors call c has launched, in order
    seen,     \* seen[c]: the children of call c that ended, in order, each with
              \*          its behaviour and the value run_command returned for it
    result,   \* result[c]: what the handler of call c returned or raised
    loop,     \* the call that occupies the event-loop thread, 0 when free
    window,   \* how many requests the client keeps outstanding
    payloads  \* "all" | "generic": the child outputs explored

vars == <<pc, req, cmds, seen, result, loop, window, payloads>>

----------------------------------------------------------------------------
(* Bounds of the model *)

MaxCalls == 2
MaxNodes == 2
MaxPods == 4
MaxAlerts == 11

Calls == 1..MaxCalls

----------------------------------------------------------------------------
(* JSON values and texts *)

JNull == [t |-> "null"]
JNum(n) == [t |-> "num", n |-> n]
JStr(x) == [t |-> "str", x |-> x]
JArr(a) == [t |-> "arr", a |-> a]
JObj(o) == [t |-> "obj", o |-> o]
EmptyDict == [key \in {} |-> JNull]

Raw(s) == [k |-> "raw", s |-> s]
S(s) == JStr(Raw(s))

Exc(e) == [t |-> "exc", e |-> e]
IsExc(v) == v.t = "exc"

Return(text) == [r |-> "return", text |-> text]
Raised(e, msg) == [r |-> "raise", e |-> e, msg |-> msg]
NoResult == [r |-> "none"]

\* an exception of class e leaving the handler (its message is not modelled)
Propagates(e) == Raised(e, Raw(""))

\* json.dumps(v): the serialisation of v
json_dumps(v) == [k |-> "json", v |-> v]

\* json.loads(text): the value a JSON document decodes to, JSONDecodeError
\* for any other text
json_loads(text) ==
    IF text.k = "json" THEN text.v ELSE Exc("JSONDecodeError")

\* f"{prefix}{v}"
Fmt(prefix, v) == [k |-> "fmt", p |-> prefix, v |-> v]

\* f"{n}{suffix}"
CountText(n, suffix) == [k |-> "count", n |-> n, p |-> suffix]

----------------------------------------------------------------------------
(* Python operations on decoded values *)

\* the literals of the model that contain the substring "error"
ErrorLiterals == {"error", "no error here"}

\* str.strip() of the literals of the model
StripLit(s) ==
    CASE s = "rook-ceph-tools-7c9d\n" -> "rook-ceph-tools-7c9d"
      [] s = "rook-ceph-tools-7c9d" -> "rook-ceph-tools-7c9d"
      [] s = " \n" -> ""
      [] s = "" -> ""

\* the characters of the literals of the model that are iterated
Chars(s) ==
    CASE s = "" -> <<>>
      [] s = "ab" -> <<S("a"), S("b")>>

RECURSIVE SetToSeq(_)
SetToSeq(set) ==
    IF set = {} THEN <<>>
    ELSE LET x == CHOOSE y \in set : TRUE
         IN <<x>> \o SetToSeq(set \ {x})

\* v[key] for a string key
Subscript(v, key) ==
    IF IsExc(v) THEN v
    ELSE IF v.t = "obj"
         THEN IF key \in DOMAIN v.o THEN v.o[key] ELSE Exc("KeyError")
         ELSE Exc("TypeError")

\* whether v is a dict, so that v.get exists
HasGet(v) == v.t = "obj"

\* v.get(key, default) of a dict v
Get(v, key, default) ==
    IF key \in DOMAIN v.o THEN v.o[key] ELSE default

\* whether `key in v` is defined (dict, str, list); a TypeError otherwise
CanContain(v) == v.t \in {"obj", "str", "arr"}

\* key in v: a key of a dict, a substring of a str, an element of a list
Contains(key, v) ==
    CASE v.t = "obj" -> key \in DOMAIN v.o
      [] v.t = "str" -> v.x.k = "raw" /\ v.x.s \in ErrorLiterals
      [] v.t = "arr" -> \E i \in DOMAIN v.a : v.a[i] = S(key)
      [] OTHER -> FALSE

\* bool(v)
Truthy(v) ==
    CASE v.t = "null" -> FALSE
      [] v.t = "num" -> v.n # 0
      [] v.t = "str" -> v.x # Raw("")
      [] v.t = "arr" -> v.a # <<>>
      [] v.t = "obj" -> DOMAIN v.o # {}

\* whether `for x in v` and len(v) are defined
Iterable(v) == v.t \in {"arr", "obj", "str"}

\* the elements `for x in v` visits
Elems(v) ==
    CASE v.t = "arr" -> v.a
      [] v.t = "obj" -> SetToSeq({S(key) : key \in DOMAIN v.o})
      [] v.t = "str" -> Chars(v.x.s)

\* the first exception among the values of a sequence
FirstExc(seq) ==
    seq[CHOOSE i \in DOMAIN seq :
            IsExc(seq[i]) /\ \A j \in DOMAIN seq : j < i => ~IsExc(seq[j])]

AnyExc(seq) == \E i \in DOMAIN seq : IsExc(seq[i])

----------------------------------------------------------------------------
(* run_command: the outcome of one child process *)

\* timeout=30 of subprocess.run
TimeoutSecs == 30

\* A child that was started: it would run for `secs`, exit with rc and have
\* written out and err by then.
Ran(secs, rc, out, err) ==
    [b |-> "ran", secs |-> secs, rc |-> rc, out |-> out, err |-> err]

\* A child that could not be started: subprocess.run raises the exception msg
LaunchError(msg) == [b |-> "oserror", msg |-> msg]

TimedOut(beh) == beh.b = "ran" /\ beh.secs > TimeoutSecs

\* run_command with the JSON decoding tried before the exit code is looked at
run_command_decode_first(beh) ==
    IF beh.b = "oserror" THEN JObj([error |-> JStr(beh.msg)])
    ELSE IF TimedOut(beh) THEN JObj([error |-> S("Command timed out")])
    ELSE IF ~IsExc(json_loads(beh.out)) THEN json_loads(beh.out)
    ELSE IF beh.rc # 0
    THEN JObj([error |-> JStr(beh.err), returncode |-> JNum(beh.rc)])
    ELSE JObj([output |-> JStr(beh.out)])

run_command(beh) ==
    IF beh.b = "oserror" THEN JObj([error |-> JStr(beh.msg)])
    ELSE IF TimedOut(beh) THEN JObj([error |-> S("Command timed out")])
    ELSE IF beh.rc # 0
    THEN JObj([error |-> JStr(beh.err), returncode |-> JNum(beh.rc)])
    ELSE IF IsExc(json_loads(beh.out))
         THEN JObj([output |-> JStr(beh.out)])
         ELSE json_loads(beh.out)

----------------------------------------------------------------------------
(* handle_list_tools: the tool catalog *)

handle_list_tools ==
    <<"get_k8s_nodes", "get_k8s_pods", "get_argocd_apps", "get_ceph_status",
      "get_prometheus_alerts">>

ToolNames == {handle_list_tools[i] : i \in DOMAIN handle_list_tools}

----------------------------------------------------------------------------
(* get_k8s_nodes *)

nodes_cmd == <<"kubectl", "get", "nodes", "-o", "json">>

\* the inner loop with the test written as `!= "False"`
RECURSIVE ReadyStatus_not_false(_, _, _)
ReadyStatus_not_false(conds, i, status) ==
    IF i > Len(conds) THEN status
    ELSE LET ty == Subscript(conds[i], "type")
             st == Subscript(conds[i], "status")
         IN IF IsExc(ty) THEN ty
            ELSE IF ty = S("Ready")
                 THEN IF IsExc(st) THEN st
                      ELSE ReadyStatus_not_false(conds, i + 1,
                               IF st # S("False") THEN S("Ready") ELSE S("NotReady"))
                 ELSE ReadyStatus_not_false(conds, i + 1, status)

\* the inner loop over node["status"]["conditions"], from position i on
RECURSIVE ReadyStatus(_, _, _)
ReadyStatus(conds, i, status) ==
    IF i > Len(conds) THEN status
    ELSE LET ty == Subscript(conds[i], "type")
             st == Subscript(conds[i], "status")
         IN IF IsExc(ty) THEN ty
            ELSE IF ty = S("Ready")
                 THEN IF IsExc(st) THEN st
                      ELSE ReadyStatus(conds, i + 1,
                               IF st = S("True") THEN S("Ready") ELSE S("NotReady"))
                 ELSE ReadyStatus(conds, i + 1, status)

\* one pass of the loop body: the formatted line of a node, or the exception
NodeLine(node) ==
    LET name == Subscript(Subscript(node, "metadata"), "name")
        conds == Subscript(Subscript(node, "status"), "conditions")
        status == ReadyStatus(Elems(conds), 1, S("Unknown"))
        version == Subscript(Subscript(Subscript(node, "status"), "nodeInfo"),
                             "kubeletVersion")
    IN IF IsExc(name) THEN name
       ELSE IF IsExc(conds) THEN conds
       ELSE IF ~Iterable(conds) THEN Exc("TypeError")
       ELSE IF IsExc(status) THEN status
       ELSE IF IsExc(version) THEN version
       ELSE JStr([k |-> "line", name |-> name, status |-> status,
                  version |-> version])

get_k8s_nodes(res) ==
    IF ~CanContain(res) THEN Propagates("TypeError")
    ELSE IF Contains("error", res)
    THEN IF res.t = "obj"
         THEN Return(Fmt("Error getting nodes: ", res.o["error"]))
         ELSE Propagates("TypeError")
    ELSE IF ~HasGet(res) THEN Propagates("AttributeError")
    ELSE LET nodes == Get(res, "items", JArr(<<>>))
         IN IF ~Iterable(nodes) THEN Propagates("TypeError")
            ELSE LET node_info ==
                         [i \in DOMAIN Elems(nodes) |-> NodeLine(Elems(nodes)[i])]
                 IN IF AnyExc(node_info)
                    THEN Propagates(FirstExc(node_info).e)
                    ELSE Return(json_dumps(JObj(
                             [summary |-> JStr(CountText(Len(Elems(nodes)),
                                                         " nodes total")),
                              nodes |-> JArr(node_info),
                              raw |-> res])))

----------------------------------------------------------------------------
(* get_k8s_pods *)

pods_cmd(namespace) ==
    IF namespace # ""
    THEN <<"kubectl", "get", "pods", "-o", "json", "-n", namespace>>
    ELSE <<"kubectl", "get", "pods", "-o", "json", "--all-namespaces">>

\* pod["status"].get("phase", "Unknown")
PodPhase(pod) ==
    LET status == Subscript(pod, "status")
    IN IF IsExc(status) THEN status
       ELSE IF ~HasGet(status) THEN Exc("AttributeError")
       ELSE Get(status, "phase", S("Unknown"))

\* the if/elif chain with the else branch taken only by the phase "Unknown"
Bucket_unknown_only(phase) ==
    IF phase = S("Running") THEN "running"
    ELSE IF phase = S("Pending") THEN "pending"
    ELSE IF phase = S("Failed") THEN "failed"
    ELSE IF phase = S("Unknown") THEN "unknown"
    ELSE "none"

\* the bucket the if/elif chain increments for a phase
Bucket(phase) ==
    IF phase = S("Running") THEN "running"
    ELSE IF phase = S("Pending") THEN "pending"
    ELSE IF phase = S("Failed") THEN "failed"
    ELSE "unknown"

\* how many of the phases fall into a bucket
Tally(phases, bucket) ==
    Cardinality({i \in DOMAIN phases : Bucket(phases[i]) = bucket})

get_k8s_pods(res) ==
    IF ~CanContain(res) THEN Propagates("TypeError")
    ELSE IF Contains("error", res)
    THEN IF res.t = "obj"
         THEN Return(Fmt("Error getting pods: ", res.o["error"]))
         ELSE Propagates("TypeError")
    ELSE IF ~HasGet(res) THEN Propagates("AttributeError")
    ELSE LET pods == Get(res, "items", JArr(<<>>))
         IN IF ~Iterable(pods) THEN Propagates("TypeError")
            ELSE LET phases ==
                         [i \in DOMAIN Elems(pods) |-> PodPhase(Elems(pods)[i])]
                 IN IF AnyExc(phases)
                    THEN Propagates(FirstExc(phases).e)
                    ELSE Return(json_dumps(JObj(
                             [summary |-> JObj(
                                  [total |-> JNum(Len(Elems(pods))),
                                   running |-> JNum(Tally(phases, "running")),
                                   pending |-> JNum(Tally(phases, "pending")),
                                   failed |-> JNum(Tally(phases, "failed")),
                                   unknown |-> JNum(Tally(phases, "unknown"))]),
                              raw |-> res])))

----------------------------------------------------------------------------
(* get_argocd_apps *)

argocd_cmd == <<"kubectl", "get", "applications", "-n", "argocd", "-o", "json">>

\* one pass of the loop body: the {name, sync, health} record, or the exception
AppRecord(app) ==
    LET name == Subscript(Subscript(app, "metadata"), "name")
        sync == Subscript(Subscript(Subscript(app, "status"), "sync"), "status")
        health == Subscript(Subscript(Subscript(app, "status"), "health"), "status")
    IN IF IsExc(name) THEN name
       ELSE IF IsExc(sync) THEN sync
       ELSE IF IsExc(health) THEN health
       ELSE JObj([name |-> name, sync |-> sync, health |-> health])

CountApps(recs, field, value) ==
    Cardinality({i \in DOMAIN recs : recs[i].o[field] = value})

get_argocd_apps(res) ==
    IF ~CanContain(res) THEN Propagates("TypeError")
    ELSE IF Contains("error", res)
    THEN IF res.t = "obj"
         THEN Return(Fmt("Error getting ArgoCD apps: ", res.o["error"]))
         ELSE Propagates("TypeError")
    ELSE IF ~HasGet(res) THEN Propagates("AttributeError")
    ELSE LET apps == Get(res, "items", JArr(<<>>))
         IN IF ~Iterable(apps) THEN Propagates("TypeError")
            ELSE LET recs ==
                         [i \in DOMAIN Elems(apps) |-> AppRecord(Elems(apps)[i])]
                 IN IF AnyExc(recs)
                    THEN Propagates(FirstExc(recs).e)
                    ELSE Return(json_dumps(JObj(
                             [total |-> JNum(Len(Elems(apps))),
                              synced |-> JNum(CountApps(recs, "sync", S("Synced"))),
                              out_of_sync |-> JNum(Len(recs)
                                  - CountApps(recs, "sync", S("Synced"))),
                              healthy |-> JNum(CountApps(recs, "health", S("Healthy"))),
                              degraded |-> JNum(CountApps(recs, "health", S("Degraded"))),
                              apps |-> JArr(recs)])))

----------------------------------------------------------------------------
(* get_ceph_status *)

lookup_cmd ==
    <<"kubectl", "get", "pod", "-n", "rook-ceph", "-l", "app=rook-ceph-tools",
      "-o", "jsonpath={.items[0].metadata.name}">>

exec_cmd(pod_name) ==
    <<"kubectl", "exec", "-n", "rook-ceph", pod_name,
      "--", "ceph", "status", "-f", "json">>

NoToolsPod == Return(Raw("Error: Could not find rook-ceph-tools pod"))

\* the first half with the pod name passed on as printed, not stripped
ceph_lookup_unstripped(tools_pod) ==
    IF ~CanContain(tools_pod)
    THEN [go |-> FALSE, res |-> Propagates("TypeError")]
    ELSE IF Contains("error", tools_pod)
    THEN [go |-> FALSE, res |-> NoToolsPod]
    ELSE IF ~HasGet(tools_pod)
    THEN [go |-> FALSE, res |-> Propagates("AttributeError")]
    ELSE IF ~Truthy(Get(tools_pod, "output", JNull))
    THEN [go |-> FALSE, res |-> NoToolsPod]
    ELSE IF tools_pod.o["output"].t # "str"
    THEN [go |-> FALSE, res |-> Propagates("AttributeError")]
    ELSE [go |-> TRUE, cmd |-> exec_cmd(tools_pod.o["output"].x.s)]

\* The first half of get_ceph_status, up to the second run_command: either
\* the handler ends (go = FALSE, with what it returns or raises) or it
\* launches the exec (go = TRUE, with the argument vector).
ceph_lookup(tools_pod) ==
    IF ~CanContain(tools_pod)
    THEN [go |-> FALSE, res |-> Propagates("TypeError")]
    ELSE IF Contains("error", tools_pod)
    THEN [go |-> FALSE, res |-> NoToolsPod]
    ELSE IF ~HasGet(tools_pod)
    THEN [go |-> FALSE, res |-> Propagates("AttributeError")]
    ELSE IF ~Truthy(Get(tools_pod, "output", JNull))
    THEN [go |-> FALSE, res |-> NoToolsPod]
    ELSE IF tools_pod.o["output"].t # "str"
    THEN [go |-> FALSE, res |-> Propagates("AttributeError")]
    ELSE [go |-> TRUE, cmd |-> exec_cmd(StripLit(tools_pod.o["output"].x.s))]

\* The second half of get_ceph_status, after the exec returned
get_ceph_status(res) ==
    IF ~CanContain(res) THEN Propagates("TypeError")
    ELSE IF Contains("error", res)
    THEN IF res.t = "obj"
         THEN Return(Fmt("Error getting Ceph status: ", res.o["error"]))
         ELSE Propagates("TypeError")
    ELSE Return(json_dumps(res))

----------------------------------------------------------------------------
(* get_prometheus_alerts *)

alerts_cmd ==
    <<"kubectl", "run", "curl-temp", "--rm", "-i", "--restart=Never",
      "--image=curlimages/curl:latest", "--", "curl", "-s",
      "http://kube-prometheus-stack-prometheus.monitoring:9090/api/v1/alerts">>

\* active_alerts[:10]
AlertLimit == 10

\* except Exception as e: the handler returns the parse error as text
ParseError(e) == Return(Fmt("Error parsing alerts: ", Exc(e)))

\* a.get("labels", {}).get("severity") == severity
SeverityMatches(a, severity) ==
    Get(Get(a, "labels", JObj(EmptyDict)), "severity", JNull) = S(severity)

\* a.get("state") == "firing"
IsFiring(a) == Get(a, "state", JNull) = S("firing")

\* the slice left out: the whole list
Prefix_untruncated(seq, n) == seq

\* seq[:n]
Prefix(seq, n) == SubSeq(seq, 1, IF Len(seq) < n THEN Len(seq) ELSE n)

\* The body of the try block once the alerts value is known
FilterAlerts(alerts, severity) ==
    IF ~Iterable(alerts) THEN ParseError("TypeError")
    ELSE LET all == Elems(alerts)
             kept == IF severity # ""
                     THEN SelectSeq(all, LAMBDA a : SeverityMatches(a, severity))
                     ELSE all
             active_alerts == SelectSeq(kept, IsFiring)
         IN IF \E i \in DOMAIN all : ~HasGet(all[i])
            THEN ParseError("AttributeError")
            ELSE IF severity # ""
                    /\ \E i \in DOMAIN all :
                          ~HasGet(Get(all[i], "labels", JObj(EmptyDict)))
            THEN ParseError("AttributeError")
            ELSE Return(json_dumps(JObj(
                     [total_alerts |-> JNum(Len(kept)),
                      active_alerts |-> JNum(Len(active_alerts)),
                      alerts |-> JArr(Prefix(active_alerts, AlertLimit))])))

get_prometheus_alerts(res, severity) ==
    IF ~CanContain(res) THEN Propagates("TypeError")
    ELSE IF Contains("error", res)
    THEN IF res.t = "obj"
         THEN Return(Fmt("Error getting alerts: ", res.o["error"]))
         ELSE Propagates("TypeError")
    ELSE IF ~HasGet(res) THEN ParseError("AttributeError")
    ELSE LET body == Get(res, "output", JStr(json_dumps(JObj(EmptyDict))))
             alerts_data == json_loads(body.x)
         IN IF body.t # "str" THEN ParseError("TypeError")
            ELSE IF IsExc(alerts_data) THEN ParseError("JSONDecodeError")
            ELSE IF ~HasGet(alerts_data) THEN ParseError("AttributeError")
            ELSE IF ~HasGet(Get(alerts_data, "data", JObj(EmptyDict)))
            THEN ParseError("AttributeError")
            ELSE FilterAlerts(
                     Get(Get(alerts_data, "data", JObj(EmptyDict)),
                         "alerts", JArr(<<>>)),
                     severity)

----------------------------------------------------------------------------
(* handle_call_tool: the dispatch on the tool name *)

\* arguments.get(key, "") if arguments else ""
Argument(arguments, key) ==
    IF Truthy(arguments) THEN Get(arguments, key, S("")).x.s ELSE ""

\* the chain with one name misspelt
handle_call_tool_misspelt(name, arguments) ==
    IF name = "get_k8s_nodes" THEN [fn |-> "get_k8s_nodes", arg |-> ""]
    ELSE IF name = "get_k8s_pods"
    THEN [fn |-> "get_k8s_pods", arg |-> Argument(arguments, "namespace")]
    ELSE IF name = "get_argocd_apps" THEN [fn |-> "get_argocd_apps", arg |-> ""]
    ELSE IF name = "get_ceph" THEN [fn |-> "get_ceph_status", arg |-> ""]
    ELSE IF name = "get_prometheus_alerts"
    THEN [fn |-> "get_prometheus_alerts", arg |-> Argument(arguments, "severity")]
    ELSE [fn |-> "ValueError", arg |-> name]

\* The branch of the if/elif chain a name takes: the tool function it calls
\* and the argument it passes, or the ValueError of the else branch.
handle_call_tool(name, arguments) ==
    IF name = "get_k8s_nodes" THEN [fn |-> "get_k8s_nodes", arg |-> ""]
    ELSE IF name = "get_k8s_pods"
    THEN [fn |-> "get_k8s_pods", arg |-> Argument(arguments, "namespace")]
    ELSE IF name = "get_argocd_apps" THEN [fn |-> "get_argocd_apps", arg |-> ""]
    ELSE IF name = "get_ceph_status" THEN [fn |-> "get_ceph_status", arg |-> ""]
    ELSE IF name = "get_prometheus_alerts"
    THEN [fn |-> "get_prometheus_alerts", arg |-> Argument(arguments, "severity")]
    ELSE [fn |-> "ValueError", arg |-> name]

\* the first argument vector a tool function launches
FirstCmd(fn, arg) ==
    CASE fn = "get_k8s_nodes" -> nodes_cmd
      [] fn = "get_k8s_pods" -> pods_cmd(arg)
      [] fn = "get_argocd_apps" -> argocd_cmd
      [] fn = "get_ceph_status" -> lookup_cmd
      [] fn = "get_prometheus_alerts" -> alerts_cmd

\* what a tool function does with the value of its last run_command
Finish(fn, arg, res) ==
    CASE fn = "get_k8s_nodes" -> get_k8s_nodes(res)
      [] fn = "get_k8s_pods" -> get_k8s_pods(res)
      [] fn = "get_argocd_apps" -> get_argocd_apps(res)
      [] fn = "get_ceph_status" -> get_ceph_status(res)
      [] fn = "get_prometheus_alerts" -> get_prometheus_alerts(res, arg)

----------------------------------------------------------------------------
(* The documents the external tools print *)

\* every sequence over a set of length at most n
RECURSIVE SeqsUpTo(_, _)
SeqsUpTo(set, n) ==
    IF n = 0 THEN {<<>>}
    ELSE LET shorter == SeqsUpTo(set, n - 1)
         IN shorter \cup {Append(q, x) : q \in shorter, x \in set}

ItemList(items) == JObj([kind |-> S("List"), items |-> JArr(items)])

Cond(type, status) == JObj([type |-> S(type), status |-> S(status)])

Node(name, conds) ==
    JObj([metadata |-> JObj([name |-> S(name)]),
          status |-> JObj([conditions |-> JArr(conds),
                           nodeInfo |-> JObj([kubeletVersion |-> S("1.29.3")])])])

CondLists ==
    { <<>>,
      <<Cond("Ready", "True")>>,
      <<Cond("Ready", "False")>>,
      <<Cond("Ready", "Unknown")>>,
      <<Cond("MemoryPressure", "False")>>,
      <<Cond("MemoryPressure", "False"), Cond("Ready", "True")>>,
      <<Cond("Ready", "False"), Cond("MemoryPressure", "True")>>,
      <<Cond("Ready", "True"), Cond("Ready", "False")>>,
      <<Cond("Ready", "False"), Cond("Ready", "True")>> }

NodeSamples == {Node(name, conds) : name \in {"node-a", "node-b"}, conds \in CondLists}

NodeListDocs == {ItemList(nodes) : nodes \in SeqsUpTo(NodeSamples, MaxNodes)}

MalformedNodeDocs ==
    { ItemList(<<JObj([metadata |-> JObj([name |-> S("node")])])>>),
      ItemList(<<JObj([status |-> JObj([conditions |-> JArr(<<>>)])])>>),
      ItemList(<<JObj([metadata |-> JObj([name |-> S("node")]),
                       status |-> JObj([conditions |-> JNull])])>>),
      ItemList(<<JObj([metadata |-> JObj([name |-> S("node")]),
                       status |-> JObj([conditions |-> JArr(<<JObj(EmptyDict)>>)])])>>),
      ItemList(<<JObj([metadata |-> JObj([name |-> S("node")]),
                       status |-> JObj([conditions |->
                           JArr(<<JObj([type |-> S("Ready")])>>)])])>>),
      ItemList(<<JObj([metadata |-> JObj([name |-> S("node")]),
                       status |-> JObj([conditions |-> JArr(<<>>)])])>>),
      ItemList(<<Node("node", <<Cond("Ready", "True")>>), JNull>>) }

Pod(phase) ==
    JObj([metadata |-> JObj([name |-> S("pod")]),
          status |-> JObj([phase |-> S(phase)])])

PodNoPhase ==
    JObj([metadata |-> JObj([name |-> S("pod")]), status |-> JObj(EmptyDict)])

PodSamples ==
    {Pod(ph) : ph \in {"Running", "Pending", "Failed", "Unknown", "Succeeded"}}
        \cup {PodNoPhase}

ExamplePods ==
    <<Pod("Running"), Pod("Running"), Pod("Pending"), Pod("Failed"), Pod("Unknown")>>

PodListDocs ==
    {ItemList(pods) : pods \in SeqsUpTo(PodSamples, MaxPods) \cup {ExamplePods}}

MalformedPodDocs ==
    { ItemList(<<JObj([metadata |-> JObj([name |-> S("pod")])])>>),
      ItemList(<<JObj([status |-> S("Running")])>>),
      ItemList(<<Pod("Running"), JNum(7)>>) }

App(sync, health) ==
    JObj([metadata |-> JObj([name |-> S("app")]),
          status |-> JObj([sync |-> JObj([status |-> S(sync)]),
                           health |-> JObj([status |-> S(health)])])])

AppListDocs ==
    { ItemList(<<>>),
      ItemList(<<App("Synced", "Healthy")>>),
      ItemList(<<App("OutOfSync", "Degraded"), App("Synced", "Progressing")>>),
      ItemList(<<JObj([metadata |-> JObj([name |-> S("app")])])>>),
      ItemList(<<JObj([metadata |-> JObj([name |-> S("app")]),
                       status |-> JObj([sync |-> JObj([status |-> S("Synced")])])])>>) }

CephDocs == {JObj([health |-> JObj([status |-> S("HEALTH_OK")])])}

Alert(state, severity) ==
    JObj([labels |-> JObj([alertname |-> S("alert"), severity |-> S(severity)]),
          state |-> S(state)])

AlertSamples ==
    {Alert(st, sev) : st \in {"firing", "pending"}, sev \in {"critical", "warning"}}
        \cup { JObj([state |-> S("firing")]),
               JObj([labels |-> JObj([severity |-> S("critical")])]) }

AlertPatterns ==
    {<<>>} \cup {<<a>> : a \in AlertSamples}
        \cup {<<a, b>> : a \in AlertSamples, b \in AlertSamples}

\* n copies of an alert
Repeat(a, n) == [i \in 1..n |-> a]

\* a pattern followed by a run of one alert
AlertLists ==
    {p \o Repeat(a, n) : p \in AlertPatterns, a \in AlertSamples, n \in 0..MaxAlerts}

\* the body the Prometheus endpoint answers /api/v1/alerts with
AlertBody(alerts) ==
    JObj([status |-> S("success"), data |-> JObj([alerts |-> alerts])])

\* a dict whose "output" is a text
Output(text) == JObj([output |-> JStr(text)])

AlertDocs ==
    {AlertBody(JArr(p)) : p \in AlertPatterns}
        \cup {Output(json_dumps(AlertBody(JArr(l)))) : l \in AlertLists}
        \cup {Output(json_dumps(AlertBody(v))) :
                 v \in { JNull, JNum(3), S("ab"), S(""), JObj(EmptyDict),
                         JArr(<<JNull>>),
                         JArr(<<JObj([labels |-> S("ab"), state |-> S("firing")])>>) }}
        \cup { Output(json_dumps(JObj([data |-> JNull]))),
               Output(json_dumps(JArr(<<>>))),
               Output(Raw("not json")) }

\* values any of the tools may print, whatever was asked
GenericDocs ==
    { JNull, JNum(7), S("ab"), S(""), S("no error here"),
      JArr(<<>>), JArr(<<S("error")>>), JArr(<<JNum(1)>>),
      JObj(EmptyDict),
      JObj([error |-> S("boom")]),
      JObj([output |-> S("rook-ceph-tools-7c9d")]),
      JObj([output |-> S("")]),
      JObj([output |-> JNum(5)]),
      JObj([items |-> JNull]),
      JObj([items |-> JNum(3)]),
      JObj([items |-> S("ab")]),
      JObj([items |-> S("")]),
      JObj([items |-> JObj([a |-> JNull])]),
      JObj([items |-> JArr(<<JNull>>)]) }

\* what a tool function launches prints, by the step of the function
ToolDocs(fn, step) ==
    CASE fn = "get_k8s_nodes" -> NodeListDocs \cup MalformedNodeDocs
      [] fn = "get_k8s_pods" -> PodListDocs \cup MalformedPodDocs
      [] fn = "get_argocd_apps" -> AppListDocs
      [] fn = "get_ceph_status" -> IF step = 1 THEN {} ELSE CephDocs
      [] fn = "get_prometheus_alerts" -> AlertDocs

RawOutputs(fn, step) ==
    IF fn = "get_ceph_status" /\ step = 1
    THEN {Raw(""), Raw(" \n"), Raw("rook-ceph-tools-7c9d\n")}
    ELSE {Raw(""), Raw("not json"), Raw("{}pod curl-temp deleted")}

Stdouts(fn, step, explored) ==
    RawOutputs(fn, step)
        \cup {json_dumps(v) : v \in GenericDocs}
        \cup IF explored = "all"
             THEN {json_dumps(v) : v \in ToolDocs(fn, step)}
             ELSE {}

\* the behaviours of the child of a step of a tool function
Behaviours(fn, step, explored) ==
    {LaunchError(Raw("[Errno 2] No such file or directory: 'kubectl'"))}
        \cup {Ran(1, 0, out, Raw("")) : out \in Stdouts(fn, step, explored)}
        \cup {Ran(1, rc, out, err) :
                 rc \in {1, 137},
                 out \in {Raw(""), json_dumps(JObj(EmptyDict))},
                 err \in {Raw(""), Raw("Error from server (NotFound)")}}
        \cup {Ran(TimeoutSecs + 1, 0, out, Raw("")) :
                 out \in {Raw(""), Raw("not json"), json_dumps(JObj(EmptyDict))}}

\* the requests the transport delivers
Requests ==
    {[name |-> n, arguments |-> a] :
        n \in {"get_k8s_nodes", "get_argocd_apps", "get_ceph_status"},
        a \in {JNull, JObj(EmptyDict)}}
    \cup {[name |-> "get_k8s_pods", arguments |-> a] :
        a \in {JNull, JObj(EmptyDict), JObj([namespace |-> S("kube-system")])}}
    \cup {[name |-> "get_prometheus_alerts", arguments |-> a] :
        a \in {JNull, JObj([severity |-> S("")]), JObj([severity |-> S("critical")]),
               JObj([severity |-> S("warning")])}}
    \cup {[name |-> n, arguments |-> a] :
        n \in {"unknown_tool", "get_k8s_node", ""},
        a \in {JNull, JObj([severity |-> S("critical")])}}

NoRequest == [name |-> "", arguments |-> JNull]

----------------------------------------------------------------------------
(* The server: calls dispatched on one event loop *)

TypeOK ==
    /\ pc \in [Calls -> {"idle", "pending", "waiting", "done"}]
    /\ loop \in {0} \cup Calls
    /\ window \in 1..MaxCalls
    /\ payloads \in {"all", "generic"}

Start(w, explored) ==
    /\ pc = [c \in Calls |-> "idle"]
    /\ req = [c \in Calls |-> NoRequest]
    /\ cmds = [c \in Calls |-> <<>>]
    /\ seen = [c \in Calls |-> <<>>]
    /\ result = [c \in Calls |-> NoResult]
    /\ loop = 0
    /\ window = w
    /\ payloads = explored

\* requests one at a time, every document explored
Init == Start(1, "all")

\* the client keeps up to MaxCalls requests outstanding
InitConcurrent == Start(MaxCalls, "generic")

Outstanding == {c \in Calls : pc[c] # "idle"}

\* the transport reads a request and creates the task that will handle it
Request(c, r) ==
    /\ pc[c] = "idle"
    /\ \A d \in Calls : d < c => pc[d] # "idle"
    /\ Cardinality(Outstanding) < window
    /\ pc' = [pc EXCEPT ![c] = "pending"]
    /\ req' = [req EXCEPT ![c] = r]
    /\ UNCHANGED <<cmds, seen, result, loop, window, payloads>>

Dispatched(c) == handle_call_tool(req[c].name, req[c].arguments)

\* handle_call_tool runs for an unknown name: the else branch raises
Reject(c) ==
    /\ pc[c] = "pending"
    /\ loop = 0
    /\ Dispatched(c).fn = "ValueError"
    /\ pc' = [pc EXCEPT ![c] = "done"]
    /\ result' = [result EXCEPT
                     ![c] = Raised("ValueError",
                                   Fmt("Unknown tool: ", S(Dispatched(c).arg)))]
    /\ UNCHANGED <<req, cmds, seen, loop, window, payloads>>

\* handle_call_tool runs for a known name: the tool function builds its
\* command and run_command calls subprocess.run, which does not return to
\* the event loop until the child has ended
Launch(c) ==
    /\ pc[c] = "pending"
    /\ loop = 0
    /\ Dispatched(c).fn # "ValueError"
    /\ pc' = [pc EXCEPT ![c] = "waiting"]
    /\ cmds' = [cmds EXCEPT ![c] = <<FirstCmd(Dispatched(c).fn, Dispatched(c).arg)>>]
    /\ loop' = c
    /\ UNCHANGED <<req, seen, result, window, payloads>>

\* the pod-name lookup of get_ceph_status ends: the handler returns, raises
\* or launches the exec
LookupEnds(c) ==
    /\ pc[c] = "waiting"
    /\ loop = c
    /\ Dispatched(c).fn = "get_ceph_status"
    /\ Len(cmds[c]) = 1
    /\ \E beh \in Behaviours("get_ceph_status", 1, payloads) :
          /\ seen' = [seen EXCEPT
                         ![c] = Append(@, [beh |-> beh, ret |-> run_command(beh)])]
          /\ LET next == ceph_lookup(run_command(beh))
             IN IF next.go
                THEN /\ cmds' = [cmds EXCEPT ![c] = Append(@, next.cmd)]
                     /\ UNCHANGED <<pc, result, loop>>
                ELSE /\ pc' = [pc EXCEPT ![c] = "done"]
                     /\ result' = [result EXCEPT ![c] = next.res]
                     /\ loop' = 0
                     /\ UNCHANGED cmds
    /\ UNCHANGED <<req, window, payloads>>

\* the last child of a tool function ends: the handler returns or raises
ChildEnds(c) ==
    /\ pc[c] = "waiting"
    /\ loop = c
    /\ Dispatched(c).fn = "get_ceph_status" => Len(cmds[c]) = 2
    /\ \E beh \in Behaviours(Dispatched(c).fn, Len(cmds[c]), payloads) :
          /\ seen' = [seen EXCEPT
                         ![c] = Append(@, [beh |-> beh, ret |-> run_command(beh)])]
          /\ result' = [result EXCEPT
                           ![c] = Finish(Dispatched(c).fn, Dispatched(c).arg,
                                         run_command(beh))]
    /\ pc' = [pc EXCEPT ![c] = "done"]
    /\ loop' = 0
    /\ UNCHANGED <<req, cmds, window, payloads>>

\* the transport writes the response of a finished call
Respond(c) ==
    /\ pc[c] = "done"
    /\ loop = 0
    /\ pc' = [pc EXCEPT ![c] = "idle"]
    /\ req' = [req EXCEPT ![c] = NoRequest]
    /\ cmds' = [cmds EXCEPT ![c] = <<>>]
    /\ seen' = [seen EXCEPT ![c] = <<>>]
    /\ result' = [result EXCEPT ![c] = NoResult]
    /\ UNCHANGED <<loop, window, payloads>>

Next ==
    \/ \E c \in Calls, r \in Requests : Request(c, r)
    \/ \E c \in Calls : Reject(c)
    \/ \E c \in Calls : Launch(c)
    \/ \E c \in Calls : LookupEnds(c)
    \/ \E c \in Calls : ChildEnds(c)
    \/ \E c \in Calls : Respond(c)

Spec == Init /\ [][Next]_vars

SpecConcurrent == InitConcurrent /\ [][Next]_vars

----------------------------------------------------------------------------
(* Properties *)

Dispatching == {c \in Calls : pc[c] \in {"waiting", "done"}}
Finished == {c \in Calls : pc[c] = "done"}
FinishedOf(fn) == {c \in Finished : Dispatched(c).fn = fn}

\* the last child of a call that ended, and what run_command returned for it
LastSeen(c) == seen[c][Len(seen[c])]

\* every child that ended, of any call
CompletedChildren ==
    UNION {{seen[c][i] : i \in DOMAIN seen[c]} : c \in Calls}

\* the four outcomes the command-runner contract lists, for a child that ran
ContractOutcome(e) ==
    IF e.beh.secs > 30
    THEN e.ret = JObj([error |-> S("Command timed out")])
    ELSE IF e.beh.rc # 0
    THEN e.ret = JObj([error |-> JStr(e.beh.err), returncode |-> JNum(e.beh.rc)])
    ELSE IF e.beh.out.k = "json"
    THEN e.ret = e.beh.out.v
    ELSE e.ret = JObj([output |-> JStr(e.beh.out)])

\* C1 as stated: whatever the argument vector and the child do, run_command
\* returns one of the four outcomes of the contract, in their order (timed
\* out, non-zero exit, decoded JSON, raw output), and never raises.
C1_FourOutcomesOnly ==
    \A e \in CompletedChildren :
        /\ ~IsExc(e.ret)
        /\ e.beh.b = "ran"
        /\ ContractOutcome(e)

\* C1 amended: a child that ran gives one of the four outcomes of the
\* contract, in their order; a child that could not be started gives the
\* fifth outcome {"error": <the exception's text>}; run_command never raises.
C1_RunCommandOutcomes ==
    \A e \in CompletedChildren :
        /\ ~IsExc(e.ret)
        /\ e.beh.b = "ran" => ContractOutcome(e)
        /\ e.beh.b = "oserror" => e.ret = JObj([error |-> JStr(e.beh.msg)])

\* a child exited non-zero with a JSON document on stdout and was reported
\* as an error with its exit code
C1_Witness ==
    \E e \in CompletedChildren :
        /\ e.beh.b = "ran" /\ e.beh.secs <= 30 /\ e.beh.rc # 0
        /\ e.beh.out.k = "json"
        /\ "returncode" \in DOMAIN e.ret.o

\* the document a call got from its last child, when the child exited zero
\* within the timeout and printed JSON
Printed(c) == LastSeen(c).beh.out.v

Succeeded(c) ==
    /\ LastSeen(c).beh.b = "ran"
    /\ LastSeen(c).beh.secs <= 30
    /\ LastSeen(c).beh.rc = 0
    /\ LastSeen(c).beh.out.k = "json"

\* a list document: an object with an array of items and no "error" member
IsList(doc) ==
    /\ doc.t = "obj"
    /\ "error" \notin DOMAIN doc.o
    /\ "items" \in DOMAIN doc.o
    /\ doc.o["items"].t = "arr"

\* the positions of the Ready-typed conditions of a node
ReadyConds(node) ==
    {i \in DOMAIN node.o["status"].o["conditions"].a :
        node.o["status"].o["conditions"].a[i].o["type"] = S("Ready")}

ReadyCondStatus(node, i) ==
    node.o["status"].o["conditions"].a[i].o["status"]

\* a node as the API server returns it: a name, a kubelet version, and
\* conditions that carry a type and a status, keyed by their type
IsNode(node) ==
    /\ node.t = "obj"
    /\ {"metadata", "status"} \subseteq DOMAIN node.o
    /\ node.o["metadata"].t = "obj"
    /\ "name" \in DOMAIN node.o["metadata"].o
    /\ node.o["status"].t = "obj"
    /\ {"conditions", "nodeInfo"} \subseteq DOMAIN node.o["status"].o
    /\ node.o["status"].o["nodeInfo"].t = "obj"
    /\ "kubeletVersion" \in DOMAIN node.o["status"].o["nodeInfo"].o
    /\ node.o["status"].o["conditions"].t = "arr"
    /\ \A i \in DOMAIN node.o["status"].o["conditions"].a :
          LET cond == node.o["status"].o["conditions"].a[i]
          IN cond.t = "obj" /\ {"type", "status"} \subseteq DOMAIN cond.o
    /\ Cardinality(ReadyConds(node)) <= 1

IsNodeList(doc) ==
    /\ IsList(doc)
    /\ \A i \in DOMAIN doc.o["items"].a : IsNode(doc.o["items"].a[i])

IsPodList(doc) ==
    /\ IsList(doc)
    /\ \A i \in DOMAIN doc.o["items"].a :
          LET pod == doc.o["items"].a[i]
          IN /\ pod.t = "obj"
             /\ "status" \in DOMAIN pod.o
             /\ pod.o["status"].t = "obj"

\* the pods of a list whose phase is one of the given phases
PodsWithPhase(pods, phases) ==
    {i \in DOMAIN pods :
        /\ "phase" \in DOMAIN pods[i].o["status"].o
        /\ pods[i].o["status"].o["phase"] \in phases}

NamedPhases == {S("Running"), S("Pending"), S("Failed")}

\* C3: for a pod list returned by a successful pod query, the summary has
\* running + pending + failed + unknown = total = number of pods, each pod
\* is counted in the bucket of its phase, and a pod whose phase is absent or
\* outside {Running, Pending, Failed} is counted under unknown; the phases
\* [Running, Running, Pending, Failed, Unknown] give 5, 2, 1, 1, 1.
C3_PodBuckets ==
    \A c \in FinishedOf("get_k8s_pods") :
        (Succeeded(c) /\ IsPodList(Printed(c))) =>
            /\ result[c].r = "return"
            /\ result[c].text.k = "json"
            /\ LET sum == result[c].text.v.o["summary"].o
                   pods == Printed(c).o["items"].a
               IN /\ sum["total"] = JNum(Len(pods))
                  /\ sum["running"].n + sum["pending"].n + sum["failed"].n
                        + sum["unknown"].n = sum["total"].n
                  /\ sum["running"].n = Cardinality(PodsWithPhase(pods, {S("Running")}))
                  /\ sum["pending"].n = Cardinality(PodsWithPhase(pods, {S("Pending")}))
                  /\ sum["failed"].n = Cardinality(PodsWithPhase(pods, {S("Failed")}))
                  /\ sum["unknown"].n =
                        Cardinality(DOMAIN pods \ PodsWithPhase(pods, NamedPhases))
                  /\ pods = ExamplePods =>
                        /\ sum["total"].n = 5 /\ sum["running"].n = 2
                        /\ sum["pending"].n = 1 /\ sum["failed"].n = 1
                        /\ sum["unknown"].n = 1

\* the example list of the specification was summarised
C3_Witness ==
    \E c \in FinishedOf("get_k8s_pods") :
        /\ Succeeded(c)
        /\ Printed(c) = ItemList(ExamplePods)
        /\ result[c].r = "return"
        /\ result[c].text.v.o["summary"].o["unknown"] = JNum(1)

\* the alerts list inside the text a call got as "output", when there is one
AlertsIn(c) ==
    LastSeen(c).ret.o["output"].x.v.o["data"].o["alerts"]

HasAlertsList(c) ==
    LET ret == LastSeen(c).ret
    IN /\ ret.t = "obj" /\ DOMAIN ret.o = {"output"}
       /\ ret.o["output"].t = "str" /\ ret.o["output"].x.k = "json"
       /\ ret.o["output"].x.v.t = "obj"
       /\ "data" \in DOMAIN ret.o["output"].x.v.o
       /\ ret.o["output"].x.v.o["data"].t = "obj"
       /\ "alerts" \in DOMAIN ret.o["output"].x.v.o["data"].o
       /\ AlertsIn(c).t = "arr"
       /\ \A i \in DOMAIN AlertsIn(c).a : AlertsIn(c).a[i].t = "obj"

\* labels.severity of an alert equals the filter exactly
HasSeverity(a, severity) ==
    /\ "labels" \in DOMAIN a.o
    /\ a.o["labels"].t = "obj"
    /\ "severity" \in DOMAIN a.o["labels"].o
    /\ a.o["labels"].o["severity"] = S(severity)

\* state of an alert is "firing"
Firing(a) == "state" \in DOMAIN a.o /\ a.o["state"] = S("firing")

\* C4: in get_prometheus_alerts, a non-empty severity retains only the
\* alerts whose labels.severity equals it, and that filter comes before the
\* firing filter: total_alerts counts the severity-matching alerts of any
\* state and active_alerts those of them that fire; every alert returned
\* fires and matches the severity, the list returned is a prefix of the
\* firing (and matching) alerts in input order, and it has at most 10 entries.
C4_AlertFilter ==
    \A c \in FinishedOf("get_prometheus_alerts") :
        (HasAlertsList(c) /\ result[c].r = "return" /\ result[c].text.k = "json") =>
            LET all == AlertsIn(c).a
                sev == Dispatched(c).arg
                out == result[c].text.v.o
                Kept(a) == sev # "" => HasSeverity(a, sev)
                kept == {i \in DOMAIN all : Kept(all[i])}
                firing == SelectSeq(all, LAMBDA a : Kept(a) /\ Firing(a))
            IN /\ out["total_alerts"] = JNum(Cardinality(kept))
               /\ out["active_alerts"] = JNum(Len(firing))
               /\ \A i \in DOMAIN out["alerts"].a :
                     Firing(out["alerts"].a[i]) /\ Kept(out["alerts"].a[i])
               /\ Len(out["alerts"].a) <= Len(firing)
               /\ out["alerts"].a = SubSeq(firing, 1, Len(out["alerts"].a))
               /\ Len(out["alerts"].a) <= 10

\* a list filtered by "critical" that holds an alert of another severity,
\* a critical alert that does not fire and more than 10 critical alerts that
\* fire: 10 were returned
C4_Witness ==
    \E c \in FinishedOf("get_prometheus_alerts") :
        /\ HasAlertsList(c)
        /\ Dispatched(c).arg = "critical"
        /\ result[c].r = "return" /\ result[c].text.k = "json"
        /\ result[c].text.v.o["active_alerts"].n > 10
        /\ result[c].text.v.o["total_alerts"].n > result[c].text.v.o["active_alerts"].n
        /\ Len(result[c].text.v.o["alerts"].a) = 10
        /\ \E i \in DOMAIN AlertsIn(c).a : ~HasSeverity(AlertsIn(c).a[i], "critical")

\* the child exited zero within the timeout and its stdout is the body
\* {"data": {"alerts": [...]}} of the Prometheus endpoint
PrintedAlertBody(c) ==
    /\ Succeeded(c)
    /\ Printed(c).t = "obj"
    /\ "error" \notin DOMAIN Printed(c).o
    /\ "data" \in DOMAIN Printed(c).o
    /\ Printed(c).o["data"].t = "obj"
    /\ "alerts" \in DOMAIN Printed(c).o["data"].o
    /\ Printed(c).o["data"].o["alerts"].t = "arr"
    /\ \A i \in DOMAIN Printed(c).o["data"].o["alerts"].a :
          Printed(c).o["data"].o["alerts"].a[i].t = "obj"

\* C5: when the helper pod's command exits zero and its stdout is the
\* Prometheus body {"data": {"alerts": [...]}}, get_prometheus_alerts without
\* a severity filter reports total_alerts = the number of alerts of the body
\* and active_alerts = the number of them that fire.
C5_BodyIsParsed ==
    \A c \in FinishedOf("get_prometheus_alerts") :
        (PrintedAlertBody(c) /\ Dispatched(c).arg = "") =>
            LET alerts == Printed(c).o["data"].o["alerts"].a
            IN /\ result[c].r = "return"
               /\ result[c].text.k = "json"
               /\ result[c].text.v.o["total_alerts"] = JNum(Len(alerts))
               /\ result[c].text.v.o["active_alerts"] =
                      JNum(Cardinality({i \in DOMAIN alerts : Firing(alerts[i])}))

\* C6: whatever the external command does, a call of one of the five tools
\* returns a result or an error document; no exception leaves the tool
\* function.
C6_NoExceptionEscapes ==
    \A c \in Finished :
        Dispatched(c).fn \in ToolNames => result[c].r = "return"

\* C7: handle_call_tool routes a call to a tool function iff its name is one
\* of the 5 names handle_list_tools returns; any other name is rejected with
\* "Unknown tool: <name>" and no subprocess is launched for it, whatever the
\* arguments.
C7_DispatchMatchesCatalog ==
    /\ Cardinality(ToolNames) = 5
    /\ Len(handle_list_tools) = 5
    /\ \A c \in Calls :
          /\ pc[c] = "pending" => cmds[c] = <<>>
          /\ c \in Dispatching =>
                IF req[c].name \in ToolNames
                THEN /\ Dispatched(c).fn = req[c].name
                     /\ Len(cmds[c]) >= 1
                     /\ result[c].r # "raise" \/ result[c].e # "ValueError"
                ELSE /\ pc[c] = "done"
                     /\ cmds[c] = <<>>
                     /\ seen[c] = <<>>
                     /\ result[c] = [r |-> "raise", e |-> "ValueError",
                                     msg |-> [k |-> "fmt", p |-> "Unknown tool: ",
                                              v |-> S(req[c].name)]]

\* a name one letter away from a catalog name, sent with arguments, was rejected
C7_Witness ==
    \E c \in Finished :
        /\ req[c].name = "get_k8s_node"
        /\ req[c].arguments # JNull
        /\ result[c].r = "raise"
        /\ cmds[c] = <<>>

\* C8: one call does not block another: while a call waits for its child, a
\* second call that is pending on the same server can be started.
C8_OneCallDoesNotBlockAnother ==
    \A c \in Calls, d \in Calls :
        (c # d /\ pc[c] = "waiting" /\ pc[d] = "pending") =>
            ENABLED (Reject(d) \/ Launch(d))

\* what run_command returned for the pod-name lookup of a call
Lookup(c) == seen[c][1].ret

\* the lookup returned an error or no output
LookupFailed(c) ==
    /\ Lookup(c).t = "obj"
    /\ \/ "error" \in DOMAIN Lookup(c).o
       \/ "output" \notin DOMAIN Lookup(c).o
       \/ Lookup(c).o["output"] = S("")

\* C9: a call of get_k8s_nodes, get_k8s_pods, get_argocd_apps or
\* get_prometheus_alerts launches exactly one subprocess. get_ceph_status
\* launches two in sequence: the exec only after the lookup returned a
\* non-error, non-empty output, for exactly that output stripped of
\* surrounding whitespace; when the lookup returns an error or no output
\* the call returns "Error: Could not find rook-ceph-tools pod" and there is
\* no second launch.
C9_LaunchesPerCall ==
    \A c \in Dispatching :
        /\ Dispatched(c).fn \in ToolNames \ {"get_ceph_status"} =>
              /\ Len(cmds[c]) = 1
              /\ pc[c] = "done" => Len(seen[c]) = 1
        /\ Dispatched(c).fn = "get_ceph_status" =>
              /\ Len(cmds[c]) \in {1, 2}
              /\ Len(seen[c]) <= Len(cmds[c])
              /\ pc[c] = "waiting" => Len(seen[c]) = Len(cmds[c]) - 1
              /\ pc[c] = "done" => Len(seen[c]) = Len(cmds[c])
              /\ Len(cmds[c]) = 2 =>
                    /\ Len(seen[c]) >= 1
                    /\ Lookup(c).t = "obj"
                    /\ "error" \notin DOMAIN Lookup(c).o
                    /\ "output" \in DOMAIN Lookup(c).o
                    /\ Lookup(c).o["output"].t = "str"
                    /\ Lookup(c).o["output"] # S("")
                    /\ cmds[c][2] =
                          <<"kubectl", "exec", "-n", "rook-ceph",
                            StripLit(Lookup(c).o["output"].x.s),
                            "--", "ceph", "status", "-f", "json">>
              /\ (Len(seen[c]) >= 1 /\ LookupFailed(c)) =>
                    /\ pc[c] = "done"
                    /\ Len(cmds[c]) = 1
                    /\ result[c] =
                          [r |-> "return",
                           text |-> Raw("Error: Could not find rook-ceph-tools pod")]

\* the lookup printed the pod name with a trailing newline and the exec was
\* launched for the name without it
C9_Witness ==
    \E c \in Dispatching :
        /\ Dispatched(c).fn = "get_ceph_status"
        /\ Len(cmds[c]) = 2
        /\ seen[c][1].beh.out = Raw("rook-ceph-tools-7c9d\n")
        /\ cmds[c][2][5] = "rook-ceph-tools-7c9d"
        /\ pc[c] = "done"

\* the child could not be started, was abandoned at the timeout or exited
\* non-zero
CommandFailed(beh) ==
    beh.b = "oserror" \/ beh.secs > 30 \/ beh.rc # 0

ErrorGettingPrefixes ==
    {"Error getting nodes: ", "Error getting pods: ", "Error getting ArgoCD apps: ",
     "Error getting Ceph status: ", "Error getting alerts: "}

\* C10: a tool function returns an "Error getting ..." text iff run_command
\* ended in an error outcome (non-zero exit, timeout or launch exception); a
\* command that exits zero is never reported as an error, whatever its stdout.
C10_ErrorIffCommandFailed ==
    \A c \in Finished :
        (/\ Dispatched(c).fn \in ToolNames
         /\ Dispatched(c).fn = "get_ceph_status" => Len(cmds[c]) = 2) =>
            ((/\ result[c].r = "return"
              /\ result[c].text.k = "fmt"
              /\ result[c].text.p \in ErrorGettingPrefixes)
                <=> CommandFailed(LastSeen(c).beh))

====
